---- MODULE Spec2Model ----
(***************************************************************************)
(* dat: three-way reconciliation of a working tree (current), the snapshot *)
(* of the last synchronisation (.dat/local) and the remote snapshot        *)
(* (.dat/master in the object store), as implemented in src/src/dat.py.    *)
(*                                                                         *)
(* An inventory is a total function Paths -> 0..NumFP; 0 (Absent) stands   *)
(* for "the path is not a key of the dict".  A fingerprint 1..NumFP stands *)
(* for the md5 digest of one file content.                                 *)
(***************************************************************************)
EXTENDS Integers, Sequences, FiniteSets, TLC

\* ------------------------------------------------------------------ bounds
\* number of distinct file contents (md5 digests) the model distinguishes
NumFP == 3
\* number of working-tree edits the users make in one behaviour
MaxEdits == 3
\* the same, in behaviours that use the whole command line
MaxCliEdits == 3
\* number of commands killed during their sync call in one behaviour
MaxKills == 1
\* edits in behaviours where a command may be killed
MaxKillEdits == 2
\* edits in behaviours that pop a stash
MaxPopEdits == 2
\* characters of a file name, and entries of an inventory, where the
\* inventory file format is exercised
MaxNameLen == 2
MaxEntries == 2
\* pieces of a path, and files of a working tree, where the walker is exercised
MaxWalkLen == 3
MaxWalkFiles == 2

\* ------------------------------------------------------------- data model
Absent == 0
FP == 1..NumFP

\* A path is a sequence of tokens; "_site" and "/" are tokens of their own so
\* that the include-pattern rewriting of dat_push/dat_pull can be computed.
PathA == <<"a">>
PathSiteA == <<"_site", "/", "a">>
Paths == {PathA, PathSiteA}

Inventories == [Paths -> {Absent} \cup FP]
EmptyInv == [p \in Paths |-> Absent]

\* dict.keys()
Keys(inv) == {p \in Paths : inv[p] # Absent}

Peers == {"A", "B"}

\* -------------------------------------------------------------- classifier
\* needs_push(current, local), with a plausible slip: new files are forgotten
needs_push_forgets_new(current, local) ==
    IF Keys(local) # {}
    THEN {f \in Keys(current) : f \in Keys(local) /\ current[f] # local[f]}
    ELSE Keys(current)

needs_push(current, local) ==
    IF Cardinality(Keys(local)) # 0
    THEN {f \in Keys(current) : IF f \notin Keys(local) THEN TRUE
                                ELSE current[f] # local[f]}
    ELSE Keys(current)

needs_pull(master, local) ==
    {f \in Keys(master) : IF f \notin Keys(local) THEN TRUE
                          ELSE local[f] # master[f]}

\* needs_purge with a plausible slip: every snapshot entry is purged
needs_purge_all(current, local) == Keys(local)

needs_purge(current, local) == {f \in Keys(local) : f \notin Keys(current)}

needs_kill(master, local) == {f \in Keys(local) : f \notin Keys(master)}

\* --------------------------------------------------------------- resolvers
\* The resolvers mutate the dicts they are given.  A resolver state is the
\* record [local, master, conflict, resolved] threaded through the for loop.
ResolverStart(local, master) ==
    [local |-> local, master |-> master, conflict |-> {}, resolved |-> {}]

\* body of the for loop of resolve_push_conflicts, with a plausible slip: the
\* "master already equals current" branch is reported as a conflict
push_step_no_resolve(current, st, f, hard) ==
    IF f \in Keys(st.local)
    THEN IF f \in Keys(st.master)
         THEN IF st.master[f] = st.local[f]
              THEN IF hard
                   THEN [st EXCEPT !.master[f] = current[f], !.local[f] = current[f]]
                   ELSE st
              ELSE [st EXCEPT !.conflict = @ \cup {f}]
         ELSE IF hard
              THEN [st EXCEPT !.master[f] = current[f], !.local[f] = current[f]]
              ELSE st
    ELSE IF f \in Keys(st.master)
         THEN [st EXCEPT !.conflict = @ \cup {f}]
         ELSE IF hard
              THEN [st EXCEPT !.master[f] = current[f], !.local[f] = current[f]]
              ELSE st

\* body of the for loop of resolve_push_conflicts
push_step(current, st, f, hard) ==
    IF f \in Keys(st.local)
    THEN IF f \in Keys(st.master)
         THEN IF st.master[f] = st.local[f]
              THEN IF hard
                   THEN [st EXCEPT !.master[f] = current[f], !.local[f] = current[f]]
                   ELSE st
              ELSE IF st.master[f] = current[f]
                   THEN [st EXCEPT !.local[f] = current[f], !.resolved = @ \cup {f}]
                   ELSE [st EXCEPT !.conflict = @ \cup {f}]
         ELSE IF hard
              THEN [st EXCEPT !.master[f] = current[f], !.local[f] = current[f]]
              ELSE st
    ELSE IF f \in Keys(st.master)
         THEN IF st.master[f] = current[f]
              THEN [st EXCEPT !.local[f] = current[f], !.resolved = @ \cup {f}]
              ELSE [st EXCEPT !.conflict = @ \cup {f}]
         ELSE IF hard
              THEN [st EXCEPT !.master[f] = current[f], !.local[f] = current[f]]
              ELSE st

RECURSIVE push_loop(_, _, _, _)
push_loop(current, st, todo, hard) ==
    IF todo = {} THEN st
    ELSE LET f == CHOOSE x \in todo : TRUE
         IN  push_loop(current, push_step(current, st, f, hard), todo \ {f}, hard)

resolve_push_conflicts(current, local, master, push, hard) ==
    push_loop(current, ResolverStart(local, master), push, hard)

\* body of the for loop of resolve_purge_conflicts, with the earlier
\* revision's reading of the m # l branch: go ahead with the purge
purge_step_go_ahead(st, f, hard) ==
    IF f \in Keys(st.master)
    THEN IF hard
         THEN [st EXCEPT !.master[f] = Absent, !.local[f] = Absent]
         ELSE st
    ELSE [st EXCEPT !.local[f] = Absent, !.resolved = @ \cup {f}]

\* body of the for loop of resolve_purge_conflicts, with a plausible slip: a
\* dry call leaves the "handle quietly" branch out altogether
purge_step_dry_silent(st, f, hard) ==
    IF f \in Keys(st.master)
    THEN IF st.master[f] # st.local[f]
         THEN [st EXCEPT !.conflict = @ \cup {f}]
         ELSE IF hard
              THEN [st EXCEPT !.master[f] = Absent, !.local[f] = Absent]
              ELSE st
    ELSE IF hard
         THEN [st EXCEPT !.local[f] = Absent, !.resolved = @ \cup {f}]
         ELSE st

\* body of the for loop of resolve_purge_conflicts
purge_step(st, f, hard) ==
    IF f \in Keys(st.master)
    THEN IF st.master[f] # st.local[f]
         THEN [st EXCEPT !.conflict = @ \cup {f}]
         ELSE IF hard
              THEN [st EXCEPT !.master[f] = Absent, !.local[f] = Absent]
              ELSE st
    ELSE [st EXCEPT !.local[f] = Absent, !.resolved = @ \cup {f}]

RECURSIVE purge_loop(_, _, _)
purge_loop(st, todo, hard) ==
    IF todo = {} THEN st
    ELSE LET f == CHOOSE x \in todo : TRUE
         IN  purge_loop(purge_step(st, f, hard), todo \ {f}, hard)

resolve_purge_conflicts(master, local, purge, hard) ==
    purge_loop(ResolverStart(local, master), purge, hard)

\* body of the for loop of resolve_pull_conflicts, with a plausible slip: a
\* locally deleted file is silently taken from the remote again
pull_step_undelete(current, st, f, hard) ==
    IF f \in Keys(st.local)
    THEN IF f \in Keys(current)
         THEN IF current[f] = st.local[f]
              THEN IF hard THEN [st EXCEPT !.local[f] = st.master[f]] ELSE st
              ELSE IF current[f] = st.master[f]
                   THEN [st EXCEPT !.local[f] = st.master[f], !.resolved = @ \cup {f}]
                   ELSE [st EXCEPT !.conflict = @ \cup {f}]
         ELSE IF hard THEN [st EXCEPT !.local[f] = st.master[f]] ELSE st
    ELSE IF f \in Keys(current)
         THEN IF current[f] = st.master[f]
              THEN [st EXCEPT !.local[f] = st.master[f], !.resolved = @ \cup {f}]
              ELSE [st EXCEPT !.conflict = @ \cup {f}]
         ELSE IF hard THEN [st EXCEPT !.local[f] = st.master[f]] ELSE st

\* body of the for loop of resolve_pull_conflicts
pull_step(current, st, f, hard) ==
    IF f \in Keys(st.local)
    THEN IF f \in Keys(current)
         THEN IF current[f] = st.local[f]
              THEN IF hard THEN [st EXCEPT !.local[f] = st.master[f]] ELSE st
              ELSE IF current[f] = st.master[f]
                   THEN [st EXCEPT !.local[f] = st.master[f], !.resolved = @ \cup {f}]
                   ELSE [st EXCEPT !.conflict = @ \cup {f}]
         ELSE [st EXCEPT !.conflict = @ \cup {f}]
    ELSE IF f \in Keys(current)
         THEN IF current[f] = st.master[f]
              THEN [st EXCEPT !.local[f] = st.master[f], !.resolved = @ \cup {f}]
              ELSE [st EXCEPT !.conflict = @ \cup {f}]
         ELSE IF hard THEN [st EXCEPT !.local[f] = st.master[f]] ELSE st

RECURSIVE pull_loop(_, _, _, _)
pull_loop(current, st, todo, hard) ==
    IF todo = {} THEN st
    ELSE LET f == CHOOSE x \in todo : TRUE
         IN  pull_loop(current, pull_step(current, st, f, hard), todo \ {f}, hard)

resolve_pull_conflicts(current, local, master, pull, hard) ==
    pull_loop(current, ResolverStart(local, master), pull, hard)

\* body of the for loop of resolve_kill_conflicts, with a plausible slip: a
\* locally modified file is killed like an unmodified one
kill_step_overwrite(current, st, f, hard) ==
    IF f \in Keys(current)
    THEN IF hard THEN [st EXCEPT !.local[f] = Absent] ELSE st
    ELSE [st EXCEPT !.local[f] = Absent, !.resolved = @ \cup {f}]

\* body of the for loop of resolve_kill_conflicts, with a plausible slip: the
\* go-ahead branch does not ask for hard
kill_step_ignores_hard(current, st, f, hard) ==
    IF f \in Keys(current)
    THEN IF current[f] # st.local[f]
         THEN [st EXCEPT !.conflict = @ \cup {f}]
         ELSE [st EXCEPT !.local[f] = Absent]
    ELSE [st EXCEPT !.local[f] = Absent, !.resolved = @ \cup {f}]

\* body of the for loop of resolve_kill_conflicts
kill_step(current, st, f, hard) ==
    IF f \in Keys(current)
    THEN IF current[f] # st.local[f]
         THEN [st EXCEPT !.conflict = @ \cup {f}]
         ELSE IF hard THEN [st EXCEPT !.local[f] = Absent] ELSE st
    ELSE [st EXCEPT !.local[f] = Absent, !.resolved = @ \cup {f}]

RECURSIVE kill_loop(_, _, _, _)
kill_loop(current, st, todo, hard) ==
    IF todo = {} THEN st
    ELSE LET f == CHOOSE x \in todo : TRUE
         IN  kill_loop(current, kill_step(current, st, f, hard), todo \ {f}, hard)

\* resolve_kill_conflicts takes no master; the record's master field is unused
resolve_kill_conflicts(current, local, kill, hard) ==
    kill_loop(current, ResolverStart(local, EmptyInv), kill, hard)

\* the generic conflict list of dat status -r, with a plausible slip: the
\* paths deleted remotely and modified locally stay in it
status_conflict_keeps_kill(all_conflict, kill_conflict, push) == all_conflict

\* conflict = sorted(all_conflict - (kill_conflict & push))
status_conflict(all_conflict, kill_conflict, push) ==
    all_conflict \ (kill_conflict \cap push)

\* the report of dat status -r for the three inventories: the four resolvers
\* run with hard=False, each on a fresh copy of the snapshot and of the
\* master, and the six lists are printed from their verdicts
status_report(current, olocal, omaster) ==
    LET push == needs_push(current, olocal)
        purg == needs_purge(current, olocal)
        pull == needs_pull(omaster, olocal)
        kill == needs_kill(omaster, olocal)
        rpush == resolve_push_conflicts(current, olocal, omaster, push, FALSE)
        rpurg == resolve_purge_conflicts(omaster, olocal, purg, FALSE)
        rpull == resolve_pull_conflicts(current, olocal, omaster, pull, FALSE)
        rkill == resolve_kill_conflicts(current, olocal, kill, FALSE)
        all_conflict == rpull.conflict \cup rpush.conflict \cup rpurg.conflict
                            \cup rkill.conflict
    IN  [conflicts |-> status_conflict(all_conflict, rkill.conflict, push),
         modifiedRemotely |-> (pull \ rpull.conflict) \ rpull.resolved,
         modifiedLocally |-> ((push \ rpush.conflict) \ rkill.conflict) \ rpush.resolved,
         deletedRemotely |-> (kill \ rkill.conflict) \ rkill.resolved,
         deletedLocally |-> (purg \ rpurg.conflict) \ rpurg.resolved,
         deletedRemotelyModifiedLocally |-> rkill.conflict \cap push,
         \* len(a) + len(b) + len(c) + len(d) + len(conflict) == 0
         localIsCurrent |->
             /\ (pull \ rpull.conflict) \ rpull.resolved = {}
             /\ ((push \ rpush.conflict) \ rkill.conflict) \ rpush.resolved = {}
             /\ (kill \ rkill.conflict) \ rkill.resolved = {}
             /\ (purg \ rpurg.conflict) \ rpurg.resolved = {}
             /\ status_conflict(all_conflict, rkill.conflict, push) = {}]

\* ------------------------------------------------------------------ state
VARIABLES
    tree,     \* tree[q][p]: fingerprint of file p in peer q's working tree
    localf,   \* localf[q]: the inventory stored in peer q's .dat/local
    pushed,   \* pushed[q]: the 'pushed' key of peer q's .dat/config
    remote,   \* the bucket: [bucket, hasMaster, master, obj]
    stash,    \* stash[q]: whether .dat/stash exists and the files it holds
    masterf,  \* masterf[q]: a .dat/master file left in peer q's directory
    edits,    \* number of working-tree edits made so far
    kills,    \* number of commands killed during their sync call so far
    last,     \* the command completed last, if no edit was made since
    hin,      \* arguments of a direct call of the classifier / a resolver
    hout      \* what that call returned and left in the dicts it was given

vars == <<tree, localf, pushed, remote, stash, masterf, edits, kills, last, hin, hout>>
sysvars == <<tree, localf, pushed, remote, stash, masterf, edits, kills, last>>

\* os.path.basename(f): shutil.move(f, '.dat/stash/') names the file by it
Basename(f) == <<f[Len(f)]>>
BaseNames == {Basename(f) : f \in Paths}

\* .dat/stash does not exist.  For each file name the stash may hold, origin
\* remembers the path the file was moved from; the directory itself keeps no
\* trace of it.
NoStash ==
    [exists |-> FALSE, files |-> [b \in BaseNames |-> Absent],
     origin |-> [b \in BaseNames |-> CHOOSE p \in Paths : Basename(p) = b]]

\* no .dat/master file in the working directory
NoFile == [exists |-> FALSE, inv |-> EmptyInv]

\* what 'dat status -r' prints: the paths under each heading
NoReport ==
    [conflicts |-> {}, modifiedRemotely |-> {}, modifiedLocally |-> {},
     deletedRemotely |-> {}, deletedLocally |-> {}, deletedRemotelyModifiedLocally |-> {},
     localIsCurrent |-> FALSE]

\* the record of no command: the value of last after an edit
NoCmd ==
    [cmd |-> "none", peer |-> "A", dry |-> FALSE, net |-> "up", out |-> "none",
     cand |-> {}, conflict |-> {}, resolved |-> {},
     changedLocal |-> FALSE, clean |-> FALSE, after |-> "none",
     include |-> {}, affected |-> {}, report |-> NoReport, code |-> 0]

\* state after 'dat init' on both peers for the same, not yet created, bucket
SysInit ==
    /\ tree = [q \in Peers |-> EmptyInv]
    /\ localf = [q \in Peers |-> EmptyInv]
    /\ pushed = [q \in Peers |-> FALSE]
    /\ remote = [bucket |-> FALSE, hasMaster |-> FALSE, master |-> EmptyInv,
                 obj |-> EmptyInv]
    /\ stash = [q \in Peers |-> NoStash]
    /\ masterf = [q \in Peers |-> NoFile]
    /\ edits = 0
    /\ kills = 0
    /\ last = NoCmd

NoCall ==
    [op |-> "none", hard |-> TRUE, cand |-> {}, conflict |-> {}, resolved |-> {},
     local |-> EmptyInv, master |-> EmptyInv,
     push |-> {}, purge |-> {}, pull |-> {}, kill |-> {},
     mirrorCand |-> {}, mirrorConflict |-> {},
     killConflict |-> {}, report |-> NoReport,
     dryVerdicts |-> <<>>, hardVerdicts |-> <<>>, chainVerdicts |-> <<>>]

\* ------------------------------------- direct calls of the pure functions
CallInit ==
    /\ hin \in [current : Inventories, local : Inventories, master : Inventories]
    /\ hout = NoCall
    /\ SysInit

\* push = needs_push(current, local) ... kill = needs_kill(master, local)
CallNeeds ==
    /\ hout' = [NoCall EXCEPT !.op = "needs",
                   !.push = needs_push(hin.current, hin.local),
                   !.purge = needs_purge(hin.current, hin.local),
                   !.pull = needs_pull(hin.master, hin.local),
                   !.kill = needs_kill(hin.master, hin.local)]
    /\ UNCHANGED <<hin, sysvars>>

Returned(op, hard, cand, st) ==
    [NoCall EXCEPT !.op = op, !.hard = hard, !.cand = cand,
                   !.conflict = st.conflict, !.resolved = st.resolved,
                   !.local = st.local, !.master = st.master]

CallResolvePush(hard) ==
    LET push == needs_push(hin.current, hin.local)
        st == resolve_push_conflicts(hin.current, hin.local, hin.master, push, hard)
    IN  /\ hout' = Returned("push", hard, push, st)
        /\ UNCHANGED <<hin, sysvars>>

CallResolvePurge(hard) ==
    LET purge == needs_purge(hin.current, hin.local)
        st == resolve_purge_conflicts(hin.master, hin.local, purge, hard)
    IN  /\ hout' = Returned("purge", hard, purge, st)
        /\ UNCHANGED <<hin, sysvars>>

CallResolvePull(hard) ==
    LET pull == needs_pull(hin.master, hin.local)
        st == resolve_pull_conflicts(hin.current, hin.local, hin.master, pull, hard)
    IN  /\ hout' = Returned("pull", hard, pull, st)
        /\ UNCHANGED <<hin, sysvars>>

CallResolveKill(hard) ==
    LET kill == needs_kill(hin.master, hin.local)
        st == resolve_kill_conflicts(hin.current, hin.local, kill, hard)
    IN  /\ hout' = Returned("kill", hard, kill, [st EXCEPT !.master = hin.master])
        /\ UNCHANGED <<hin, sysvars>>

\* the same three inventories seen from two peers: peer A runs the push
\* resolver on (current, local, master); peer B, whose working tree holds what
\* A finds in master and whose master holds what A has in its tree, runs the
\* pull resolver on (master, local, current)
CallMirrored(hard) ==
    LET push == needs_push(hin.current, hin.local)
        st == resolve_push_conflicts(hin.current, hin.local, hin.master, push, hard)
        pull == needs_pull(hin.current, hin.local)
        mirror == resolve_pull_conflicts(hin.master, hin.local, hin.current, pull, hard)
    IN  /\ hout' = [Returned("mirrored", hard, push, st) EXCEPT
                       !.mirrorCand = pull, !.mirrorConflict = mirror.conflict]
        /\ UNCHANGED <<hin, sysvars>>

\* the lists dat status -r prints for (current, local, master), next to the
\* verdicts of the four dry resolver calls they are printed from
CallStatusReport ==
    LET push == needs_push(hin.current, hin.local)
        purg == needs_purge(hin.current, hin.local)
        pull == needs_pull(hin.master, hin.local)
        kill == needs_kill(hin.master, hin.local)
        rpush == resolve_push_conflicts(hin.current, hin.local, hin.master, push, FALSE)
        rpurg == resolve_purge_conflicts(hin.master, hin.local, purg, FALSE)
        rpull == resolve_pull_conflicts(hin.current, hin.local, hin.master, pull, FALSE)
        rkill == resolve_kill_conflicts(hin.current, hin.local, kill, FALSE)
    IN  /\ hout' = [NoCall EXCEPT !.op = "report", !.hard = FALSE,
                       !.push = push, !.purge = purg, !.pull = pull, !.kill = kill,
                       !.conflict = rpull.conflict \cup rpush.conflict
                                        \cup rpurg.conflict,
                       !.killConflict = rkill.conflict,
                       !.report = status_report(hin.current, hin.local, hin.master)]
        /\ UNCHANGED <<hin, sysvars>>

\* [conflict, resolved] as a resolver returns them
Returns(st) == [conflict |-> st.conflict, resolved |-> st.resolved]

\* the four resolvers called on the same inventories with hard=False and
\* with hard=True, each on fresh copies, and with hard=True the way dat_push
\* and dat_pull call them: the second resolver of a command gets the dicts
\* the first one has mutated
CallBothModes ==
    LET push == needs_push(hin.current, hin.local)
        purg == needs_purge(hin.current, hin.local)
        pull == needs_pull(hin.master, hin.local)
        kill == needs_kill(hin.master, hin.local)
        Fresh(hard) ==
            [push |-> Returns(resolve_push_conflicts(hin.current, hin.local, hin.master, push, hard)),
             purge |-> Returns(resolve_purge_conflicts(hin.master, hin.local, purg, hard)),
             pull |-> Returns(resolve_pull_conflicts(hin.current, hin.local, hin.master, pull, hard)),
             kill |-> Returns(resolve_kill_conflicts(hin.current, hin.local, kill, hard))]
        p1 == resolve_push_conflicts(hin.current, hin.local, hin.master, push, TRUE)
        p2 == resolve_purge_conflicts(p1.master, p1.local, purg, TRUE)
        l1 == resolve_pull_conflicts(hin.current, hin.local, hin.master, pull, TRUE)
        l2 == resolve_kill_conflicts(hin.current, l1.local, kill, TRUE)
    IN  /\ hout' = [NoCall EXCEPT !.op = "modes",
                       !.push = push, !.purge = purg, !.pull = pull, !.kill = kill,
                       !.dryVerdicts = Fresh(FALSE),
                       !.hardVerdicts = Fresh(TRUE),
                       !.chainVerdicts = [push |-> Returns(p1), purge |-> Returns(p2),
                                          pull |-> Returns(l1), kill |-> Returns(l2)]]
        /\ UNCHANGED <<hin, sysvars>>

CallNext ==
    \/ CallBothModes
    \/ CallStatusReport
    \/ CallNeeds
    \/ \E hard \in BOOLEAN : CallResolvePush(hard)
    \/ \E hard \in BOOLEAN : CallResolvePurge(hard)
    \/ \E hard \in BOOLEAN : CallResolvePull(hard)
    \/ \E hard \in BOOLEAN : CallResolveKill(hard)
    \/ \E hard \in BOOLEAN : CallMirrored(hard)

SpecCall == CallInit /\ [][CallNext]_vars

\* --------------------------------------------------------- store adapter
RECURSIVE lstrip_slash(_)
\* str.lstrip('/')
lstrip_slash(s) == IF s # <<>> /\ Head(s) = "/" THEN lstrip_slash(Tail(s)) ELSE s

\* re.sub('^_site', '', f).lstrip('/'): the --include pattern written for f
IncludePattern(f) ==
    lstrip_slash(IF f # <<>> /\ Head(f) = "_site" THEN Tail(f) ELSE f)

\* the --include patterns of the sync command line, for the paths to transfer
IncludeList(transfer) == {IncludePattern(f) : f \in transfer}

\* aws s3 sync . s3://bucket --delete --exclude "*" --include <patterns>:
\* every file a pattern names is made the same at the destination as at the
\* source (copied, or deleted when the source has none); the rest is excluded
sync_files(src, dst, patterns) ==
    [p \in Paths |-> IF p \in patterns THEN src[p] ELSE dst[p]]

\* get_master(config, local): the master inventory the command works on, how
\* the call ended, and whether the bucket exists afterwards.  hasLocal is
\* FALSE when the caller passes no local (local=None).  file is the
\* .dat/master file the working directory holds before the call: the download
\* overwrites it, and when the download fails it is read in its place.
get_master(isPushed, rem, local, hasLocal, netUp, file) ==
    IF rem.hasMaster /\ netUp
    THEN \* download successful
         [status |-> "ok", master |-> rem.master, bucket |-> rem.bucket]
    ELSE IF file.exists
    THEN \* os.path.isfile('.dat/master') holds of the file left behind
         [status |-> "ok", master |-> file.inv, bucket |-> rem.bucket]
    ELSE IF ~isPushed
    THEN \* create bucket; then master = local.copy()
         IF ~netUp
         THEN [status |-> "crash", master |-> EmptyInv, bucket |-> rem.bucket]
         ELSE IF hasLocal
         THEN [status |-> "ok", master |-> local, bucket |-> TRUE]
         ELSE [status |-> "crash", master |-> EmptyInv, bucket |-> TRUE]
    ELSE \* something went wrong
         [status |-> "quit", master |-> EmptyInv, bucket |-> rem.bucket]

\* the network during one command: "up", "down" (every call fails), or
\* "drop" (the master is fetched, then the sync call fails)
Net == {"up", "down", "drop"}

\* ----------------------------------------------------------- orchestrator
\* peer q has every remote change (.dat/local is the remote master) and no
\* other peer has touched its working tree since its snapshot was taken
InSync(q) ==
    /\ localf[q] = remote.master
    /\ \A r \in Peers \ {q} : tree[r] = localf[r]

\* the command that a completed command cmd of peer q followed, no edit in
\* between: its own completed push (for a push), or a completed push of
\* another peer that started in sync and reached the bucket (for a pull)
Follows(cmd, q) ==
    IF last.out = "interrupted"
    THEN IF last.cmd = cmd /\ last.peer = q
         THEN IF cmd = "push" THEN "interrupted push" ELSE "interrupted pull"
         ELSE "none"
    ELSE IF last.cmd = "stash"
    THEN IF cmd = "pull" /\ last.peer = q /\ last.out = "stashed"
         THEN "own stash" ELSE "none"
    ELSE IF last.cmd = "status"
    THEN IF cmd = "status" /\ last.peer = q /\ last.out = "reported"
         THEN "own status" ELSE "none"
    ELSE IF last.cmd = "push" /\ ~last.dry /\ last.out \in {"synced", "uptodate"}
    THEN IF cmd = "push" /\ last.peer = q
         THEN IF last.conflict = {} THEN "own push" ELSE "own push with conflicts"
         ELSE IF cmd = "pull" /\ last.peer # q /\ last.clean
         THEN "peer push"
         ELSE "none"
    ELSE "none"

\* the exit status of the process for each way a command ends.  exit(s) and
\* quit(s) with a string s print s and exit with status 1, as does an
\* uncaught exception; a process killed during its sync call does not exit
\* with 0 either; a command that returns from dat() exits with status 0.
exit_status(out) ==
    IF out \in {"uptodate", "fatal", "refused", "interrupted"} THEN 1 ELSE 0

\* what a finished command leaves in last: its flags, how it ended (out), its
\* candidate paths and verdicts, whether it changed the content of .dat/local
\* and, for a command that ran to its end with the network up, whether it
\* started in sync and which command it followed
Done(cmd, q, dry, net, out, cand, conflict, resolved, newLocal) ==
    LET completed == ~dry /\ net = "up" /\ out \in {"synced", "uptodate"}
        after == IF ~dry /\ out \in {"synced", "uptodate", "reported"}
                 THEN Follows(cmd, q) ELSE "none"
    IN  [cmd |-> cmd, peer |-> q, dry |-> dry, net |-> net, out |-> out,
         cand |-> cand, conflict |-> conflict, resolved |-> resolved,
         changedLocal |-> newLocal # localf[q],
         clean |-> completed /\ cmd = "push" /\ InSync(q),
         after |-> after,
         include |-> {},
         affected |-> IF after \in {"interrupted push", "interrupted pull"}
                      THEN last.affected ELSE {},
         report |-> NoReport,
         code |-> exit_status(out)]

\* every fingerprint some file or inventory of the system holds
InUse ==
    {tree[q][p] : q \in Peers, p \in Paths} \cup {localf[q][p] : q \in Peers, p \in Paths}
        \cup {remote.master[p] : p \in Paths} \cup {remote.obj[p] : p \in Paths}

\* the user creates, modifies or deletes a file of a working tree.  Digests
\* are only ever compared for equality, so a content that is new to the
\* system takes the least digest not in use; the two working copies start
\* alike, so the one edited first is called A.
Edit(q, p, v) ==
    /\ edits < MaxEdits
    /\ edits = 0 => q = "A"
    /\ v # tree[q][p]
    /\ v # Absent => (v \in InUse \/ \A w \in FP : w < v => w \in InUse)
    /\ tree' = [tree EXCEPT ![q][p] = v]
    /\ edits' = edits + 1
    /\ last' = NoCmd
    /\ UNCHANGED <<localf, pushed, remote, stash, masterf, kills, hin, hout>>

\* the write of .dat/local at the end of a push, with a plausible slip: the
\* inventory of the working tree is written instead of the resolved local
push_writes_current(q, local) == tree[q]

\* write_inventory(local, '.dat/local') at the end of dat_push
push_writes_local(q, local) == local

\* the master object that the sync uploads, with a plausible slip: the master
\* as fetched is uploaded, without the entries the resolvers changed
push_uploads_fetched(fetched, resolved) == fetched

\* write_inventory(master, '.dat/master') before the sync: the master dict as
\* the resolvers left it becomes the remote master
push_uploads_master(fetched, resolved) == resolved

\* dat push [-d].  The flags a run never reads (-d and the sync call's fate
\* when it exits before the sync) are not enumerated.
Push(q, dry, net) ==
    LET current == tree[q]
        local == localf[q]
        push == needs_push(current, local)
        purg == needs_purge(current, local)
        gm == get_master(pushed[q], remote, local, TRUE, net # "down", masterf[q])
        nofile == [masterf EXCEPT ![q] = NoFile]
        r1 == resolve_push_conflicts(current, local, gm.master, push, TRUE)
        r2 == resolve_purge_conflicts(r1.master, r1.local, purg, TRUE)
        conflict == r1.conflict \cup r2.conflict
        resolved == r1.resolved \cup r2.resolved
        transfer == ((push \cup purg) \ conflict) \ resolved
        newLocal == push_writes_local(q, r2.local)
    IN  IF push \cup purg = {}
        THEN \* exit('Everything up-to-date')
             /\ ~dry /\ net = "up"
             /\ last' = Done("push", q, dry, net, "uptodate", {}, {}, {}, local)
             /\ UNCHANGED <<tree, localf, pushed, remote, stash, masterf, edits, kills, hin, hout>>
        ELSE IF gm.status # "ok"
        THEN \* quit(...) in get_master, or an exception out of it
             /\ ~dry /\ net # "drop"
             /\ remote' = [remote EXCEPT !.bucket = gm.bucket]
             /\ masterf' = nofile
             /\ last' = Done("push", q, dry, net, "fatal", {}, {}, {}, local)
             /\ UNCHANGED <<tree, localf, pushed, stash, edits, kills, hin, hout>>
        ELSE IF dry
        THEN \* print(cmd)
             /\ net # "drop"
             /\ remote' = [remote EXCEPT !.bucket = gm.bucket]
             /\ masterf' = nofile
             /\ last' = [Done("push", q, dry, net, "printed", push \cup purg,
                              conflict, resolved, local)
                            EXCEPT !.include = IncludeList(transfer)]
             /\ UNCHANGED <<tree, localf, pushed, stash, edits, kills, hin, hout>>
        ELSE \* write .dat/master; os.system(cmd); write .dat/local; pushed = True
             /\ remote' = IF net = "up"
                          THEN [bucket |-> TRUE, hasMaster |-> TRUE,
                                master |-> push_uploads_master(gm.master, r2.master),
                                obj |-> sync_files(current, remote.obj, IncludeList(transfer))]
                          ELSE [remote EXCEPT !.bucket = gm.bucket]
             /\ localf' = [localf EXCEPT ![q] = newLocal]
             /\ pushed' = [pushed EXCEPT ![q] = TRUE]
             /\ masterf' = nofile
             /\ last' = [Done("push", q, dry, net, "synced", push \cup purg,
                              conflict, resolved, newLocal)
                            EXCEPT !.include = IncludeList(transfer)]
             /\ UNCHANGED <<tree, stash, edits, kills, hin, hout>>

\* write_inventory(local, '.dat/local') at the end of dat_pull
pull_writes_local(q, local, master) == local

\* dat pull [-d].  The flags a run never reads are not enumerated.
Pull(q, dry, net) ==
    LET current == tree[q]
        local == localf[q]
        gm == get_master(pushed[q], remote, EmptyInv, FALSE, net # "down", masterf[q])
        nofile == [masterf EXCEPT ![q] = NoFile]
        pull == needs_pull(gm.master, local)
        kill == needs_kill(gm.master, local)
        r1 == resolve_pull_conflicts(current, local, gm.master, pull, TRUE)
        r2 == resolve_kill_conflicts(current, r1.local, kill, TRUE)
        conflict == r1.conflict \cup r2.conflict
        resolved == r1.resolved \cup r2.resolved
        transfer == ((pull \cup kill) \ conflict) \ resolved
        newLocal == pull_writes_local(q, r2.local, gm.master)
    IN  IF gm.status # "ok"
        THEN \* quit(...) in get_master, or an exception out of it
             /\ ~dry /\ net # "drop"
             /\ remote' = [remote EXCEPT !.bucket = gm.bucket]
             /\ masterf' = nofile
             /\ last' = Done("pull", q, dry, net, "fatal", {}, {}, {}, local)
             /\ UNCHANGED <<tree, localf, pushed, stash, edits, kills, hin, hout>>
        ELSE IF pull \cup kill = {}
        THEN \* write .dat/local (unless dry); exit('Everything up-to-date')
             /\ net # "drop"
             /\ localf' = IF dry THEN localf ELSE [localf EXCEPT ![q] = newLocal]
             /\ last' = Done("pull", q, dry, net, "uptodate", {}, {}, {},
                             IF dry THEN local ELSE newLocal)
             /\ masterf' = nofile
             /\ UNCHANGED <<tree, pushed, remote, stash, edits, kills, hin, hout>>
        ELSE IF dry
        THEN \* print(cmd)
             /\ net # "drop"
             /\ masterf' = nofile
             /\ last' = [Done("pull", q, dry, net, "printed", pull \cup kill,
                              conflict, resolved, local)
                            EXCEPT !.include = IncludeList(transfer)]
             /\ UNCHANGED <<tree, localf, pushed, remote, stash, edits, kills, hin, hout>>
        ELSE \* os.system(cmd); write .dat/local
             /\ tree' = IF net = "up"
                        THEN [tree EXCEPT ![q] =
                                  sync_files(remote.obj, current, IncludeList(transfer))]
                        ELSE tree
             /\ localf' = [localf EXCEPT ![q] = newLocal]
             /\ masterf' = nofile
             /\ last' = [Done("pull", q, dry, net, "synced", pull \cup kill,
                              conflict, resolved, newLocal)
                            EXCEPT !.include = IncludeList(transfer)]
             /\ UNCHANGED <<pushed, remote, stash, edits, kills, hin, hout>>

\* dat push, killed while os.system(cmd) runs: the sync call has uploaded the
\* files of some of its include patterns and, or, the master object; neither
\* .dat/local nor .dat/config is written and .dat/master is not removed
PushInterrupted(q, files, withMaster) ==
    LET current == tree[q]
        local == localf[q]
        push == needs_push(current, local)
        purg == needs_purge(current, local)
        gm == get_master(pushed[q], remote, local, TRUE, TRUE, masterf[q])
        r1 == resolve_push_conflicts(current, local, gm.master, push, TRUE)
        r2 == resolve_purge_conflicts(r1.master, r1.local, purg, TRUE)
        conflict == r1.conflict \cup r2.conflict
        resolved == r1.resolved \cup r2.resolved
        transfer == ((push \cup purg) \ conflict) \ resolved
    IN  /\ kills < MaxKills
        /\ push \cup purg # {}
        /\ gm.status = "ok"
        /\ files \subseteq IncludeList(transfer)
        /\ files # {} \/ withMaster
        /\ kills' = kills + 1
        /\ remote' = [bucket |-> TRUE,
                      hasMaster |-> remote.hasMaster \/ withMaster,
                      master |-> IF withMaster THEN r2.master ELSE remote.master,
                      obj |-> sync_files(current, remote.obj, files)]
        /\ masterf' = [masterf EXCEPT ![q] = [exists |-> TRUE, inv |-> r2.master]]
        /\ last' = [Done("push", q, FALSE, "up", "interrupted", push \cup purg,
                         conflict, resolved, local)
                       EXCEPT !.include = IncludeList(transfer), !.affected = transfer]
        /\ UNCHANGED <<tree, localf, pushed, stash, edits, hin, hout>>

\* dat pull, killed while os.system(cmd) runs: the sync call has downloaded
\* (or deleted) the files of some of its include patterns; .dat/local is not
\* written
PullInterrupted(q, files) ==
    LET current == tree[q]
        local == localf[q]
        gm == get_master(pushed[q], remote, EmptyInv, FALSE, TRUE, masterf[q])
        pull == needs_pull(gm.master, local)
        kill == needs_kill(gm.master, local)
        r1 == resolve_pull_conflicts(current, local, gm.master, pull, TRUE)
        r2 == resolve_kill_conflicts(current, r1.local, kill, TRUE)
        conflict == r1.conflict \cup r2.conflict
        resolved == r1.resolved \cup r2.resolved
        transfer == ((pull \cup kill) \ conflict) \ resolved
    IN  /\ kills < MaxKills
        /\ gm.status = "ok"
        /\ pull \cup kill # {}
        /\ files \subseteq IncludeList(transfer)
        /\ files # {}
        /\ kills' = kills + 1
        /\ tree' = [tree EXCEPT ![q] = sync_files(remote.obj, current, files)]
        /\ masterf' = [masterf EXCEPT ![q] = NoFile]
        /\ last' = [Done("pull", q, FALSE, "up", "interrupted", pull \cup kill,
                         conflict, resolved, local)
                       EXCEPT !.include = IncludeList(transfer), !.affected = transfer]
        /\ UNCHANGED <<localf, pushed, remote, stash, edits, hin, hout>>

\* dat status -r.  Each resolver gets a fresh copy of the snapshot and of the
\* master; .dat/local is rewritten after each of the four calls, the last
\* write being the one that stays.
Status(q, net) ==
    LET current == tree[q]
        olocal == localf[q]
        push == needs_push(current, olocal)
        purg == needs_purge(current, olocal)
        gm == get_master(pushed[q], remote, EmptyInv, FALSE, net # "down", masterf[q])
        omaster == gm.master
        pull == needs_pull(omaster, olocal)
        kill == needs_kill(omaster, olocal)
        rpush == resolve_push_conflicts(current, olocal, omaster, push, FALSE)
        rpurg == resolve_purge_conflicts(omaster, olocal, purg, FALSE)
        rpull == resolve_pull_conflicts(current, olocal, omaster, pull, FALSE)
        rkill == resolve_kill_conflicts(current, olocal, kill, FALSE)
        all_conflict == rpull.conflict \cup rpush.conflict \cup rpurg.conflict
                            \cup rkill.conflict
        report == status_report(current, olocal, omaster)
        \* the last write_inventory(local, '.dat/local'): local is the copy of
        \* olocal that the kill resolver was given
        newLocal == rkill.local
    IN  /\ net \in {"up", "down"}
        /\ remote' = [remote EXCEPT !.bucket = gm.bucket]
        /\ masterf' = [masterf EXCEPT ![q] = NoFile]
        /\ IF gm.status # "ok"
           THEN \* quit(...) in get_master, or an exception out of it
                /\ last' = Done("status", q, FALSE, net, "fatal", {}, {}, {}, olocal)
                /\ UNCHANGED localf
           ELSE /\ localf' = [localf EXCEPT ![q] = newLocal]
                /\ last' = [Done("status", q, FALSE, net, "reported",
                                 push \cup purg \cup pull \cup kill, all_conflict,
                                 rpush.resolved \cup rpurg.resolved
                                     \cup rpull.resolved \cup rkill.resolved,
                                 newLocal)
                               EXCEPT !.report = report]
        /\ UNCHANGED <<tree, pushed, stash, edits, kills, hin, hout>>

\* the orders in which 'for f in conflict' may visit a set of paths
Orders(S) ==
    {o \in [1..Cardinality(S) -> S] :
        \A i, j \in 1..Cardinality(S) : i # j => o[i] # o[j]}

\* body of the loop 'for f in conflict' of dat_stash: shutil.move raises when
\* the file does not exist or .dat/stash already holds a file of its name
stash_step(st, f) ==
    IF st.raised THEN st
    ELSE IF st.tree[f] = Absent \/ st.files[Basename(f)] # Absent
    THEN [st EXCEPT !.raised = TRUE]
    ELSE [st EXCEPT !.files[Basename(f)] = st.tree[f],
                    !.origin[Basename(f)] = f,
                    !.tree[f] = Absent,
                    !.local[f] = Absent,
                    !.written = [st.local EXCEPT ![f] = Absent]]

RECURSIVE stash_loop(_, _)
stash_loop(st, order) ==
    IF DOMAIN order = {} THEN st
    ELSE stash_loop(stash_step(st, Head(order)), Tail(order))

\* the conflicts dat pull would print for peer q in the current state
PullConflicts(q) ==
    LET gm == get_master(pushed[q], remote, EmptyInv, FALSE, TRUE, masterf[q])
        pull == needs_pull(gm.master, localf[q])
        kill == needs_kill(gm.master, localf[q])
        r1 == resolve_pull_conflicts(tree[q], localf[q], gm.master, pull, TRUE)
        r2 == resolve_kill_conflicts(tree[q], r1.local, kill, TRUE)
    IN  IF gm.status = "ok" THEN r1.conflict \cup r2.conflict ELSE {}

\* dat stash.  The record left in last keeps, as affected, the conflicts a
\* pull would have printed in the state the stash started from.
Stash(q, net) ==
    LET current == tree[q]
        gm == get_master(pushed[q], remote, EmptyInv, FALSE, net # "down", masterf[q])
        local == IF Cardinality(Keys(localf[q])) = 0 THEN current ELSE localf[q]
        pull == needs_pull(gm.master, local)
        kill == needs_kill(gm.master, local)
        r1 == resolve_pull_conflicts(current, local, gm.master, pull, TRUE)
        r2 == resolve_kill_conflicts(current, r1.local, kill, TRUE)
        conflict == r1.conflict \cup r2.conflict
        start == [tree |-> current, local |-> r2.local, files |-> NoStash.files,
                  origin |-> NoStash.origin,
                  written |-> localf[q], raised |-> FALSE]
    IN  /\ net \in {"up", "down"}
        /\ IF stash[q].exists
           THEN \* exit('Error: Unpopped stash detected!')
                /\ net = "up"
                /\ last' = Done("stash", q, FALSE, net, "refused", {}, {}, {}, localf[q])
                /\ UNCHANGED <<tree, localf, remote, stash, masterf>>
           ELSE IF gm.status # "ok"
           THEN \* quit(...) in get_master, or an exception out of it
                /\ remote' = [remote EXCEPT !.bucket = gm.bucket]
                /\ masterf' = [masterf EXCEPT ![q] = NoFile]
                /\ last' = Done("stash", q, FALSE, net, "fatal", {}, {}, {}, localf[q])
                /\ UNCHANGED <<tree, localf, stash>>
           ELSE \E order \in Orders(conflict) :
                  LET end == stash_loop(start, order)
                  IN  /\ tree' = [tree EXCEPT ![q] = end.tree]
                      /\ localf' = [localf EXCEPT ![q] = end.written]
                      /\ stash' = [stash EXCEPT ![q] =
                                       [exists |-> TRUE, files |-> end.files,
                                        origin |-> end.origin]]
                      /\ remote' = [remote EXCEPT !.bucket = gm.bucket]
                      /\ masterf' = [masterf EXCEPT ![q] = NoFile]
                      /\ last' = [Done("stash", q, FALSE, net,
                                       IF end.raised THEN "fatal" ELSE "stashed",
                                       pull \cup kill, conflict,
                                       r1.resolved \cup r2.resolved, end.written)
                                     EXCEPT !.affected = PullConflicts(q)]
        /\ UNCHANGED <<pushed, edits, kills, hin, hout>>

\* shutil.move(f, './' + ff) for every file f of .dat/stash, ff its name:
\* the file lands in the top directory under its name and replaces a file
\* that is there
pop_moves(current, files) ==
    [p \in Paths |-> IF p \in BaseNames /\ files[p] # Absent THEN files[p]
                     ELSE current[p]]

\* dat stash pop [--hard].  Every entry of .dat/stash is a regular file, so
\* os.path.isfile(f) holds for each entry the loop visits and without --hard
\* the command exits at the first one.  .dat/config is not read.
Pop(q, hard) ==
    LET files == stash[q].files
        out == IF ~stash[q].exists THEN "fatal"
               ELSE IF ~hard /\ \E b \in BaseNames : files[b] # Absent
               THEN "refused"
               ELSE "popped"
    IN  /\ IF out = "popped"
           THEN /\ tree' = [tree EXCEPT ![q] = pop_moves(tree[q], files)]
                /\ stash' = [stash EXCEPT ![q] = NoStash]
           ELSE UNCHANGED <<tree, stash>>
        /\ last' = [Done(IF hard THEN "pop --hard" ELSE "pop", q, FALSE, "up",
                         out, {}, {}, {}, localf[q])
                       EXCEPT !.affected = {stash[q].origin[b] : b \in
                                  {c \in BaseNames : files[c] # Absent}}]
        /\ UNCHANGED <<localf, pushed, remote, masterf, edits, kills, hin, hout>>

\* ------------------------------------------------- inventory file format
\* A text is a sequence of characters.  "SP", "TAB" and "LF" are the space,
\* the tab and the line feed; a digest is hexadecimal and is kept as one
\* character of its own kind.
Whitespace == {"SP", "TAB", "LF"}
NameChars == {"SP", "a"}
Digests == {<<"h1">>, <<"h2">>}

\* file names the walker may meet, and the dicts take_inventory may return
FileNames == UNION {[1..n -> NameChars] : n \in 1..MaxNameLen}
Dicts ==
    UNION {[D -> Digests] : D \in {E \in SUBSET FileNames : Cardinality(E) <= MaxEntries}}

\* code point of a character: str comparison in sorted()
CharCode(c) ==
    CASE c = "TAB" -> 9 [] c = "LF" -> 10 [] c = "SP" -> 32 [] c = "a" -> 97
      [] OTHER -> 104

\* s < t for two str values
StrLess(s, t) ==
    \E i \in 1..(Len(s) + 1) :
        /\ \A j \in 1..(i - 1) : j <= Len(t) /\ s[j] = t[j]
        /\ i <= Len(t)
        /\ i <= Len(s) => CharCode(s[i]) < CharCode(t[i])

RECURSIVE SortedNames(_)
\* sorted(x.keys()) for the key set K
SortedNames(K) ==
    IF K = {} THEN <<>>
    ELSE LET d == CHOOSE k \in K : \A o \in K \ {k} : StrLess(k, o)
         IN  <<d>> \o SortedNames(K \ {d})

RECURSIVE write_lines(_, _)
write_lines(x, names) ==
    IF names = <<>> THEN <<>>
    ELSE Head(names) \o <<"TAB">> \o x[Head(names)] \o <<"LF">>
             \o write_lines(x, Tail(names))

\* write_inventory(x, fname): the text the file holds afterwards
write_inventory(x) == write_lines(x, SortedNames(DOMAIN x))

\* 'for line in f': the lines of a text, each with its line feed
RECURSIVE FileLines(_)
FileLines(t) ==
    IF t = <<>> THEN <<>>
    ELSE LET ends == {i \in 1..Len(t) : t[i] = "LF"} \cup {Len(t)}
             i == CHOOSE e \in ends : \A o \in ends : e <= o
         IN  <<SubSeq(t, 1, i)>> \o FileLines(SubSeq(t, i + 1, Len(t)))

RECURSIVE lstrip(_)
lstrip(s) == IF s # <<>> /\ Head(s) \in Whitespace THEN lstrip(Tail(s)) ELSE s

RECURSIVE rstrip(_)
rstrip(s) ==
    IF s # <<>> /\ s[Len(s)] \in Whitespace THEN rstrip(SubSeq(s, 1, Len(s) - 1))
    ELSE s

\* line.strip()
strip(s) == rstrip(lstrip(s))

\* str.split('\t')
RECURSIVE split_tab(_)
split_tab(s) ==
    LET tabs == {i \in 1..Len(s) : s[i] = "TAB"}
    IN  IF tabs = {} THEN <<s>>
        ELSE LET i == CHOOSE e \in tabs : \A o \in tabs : e <= o
             IN  <<SubSeq(s, 1, i - 1)>> \o split_tab(SubSeq(s, i + 1, Len(s)))

\* body of the loop of read_inventory: row[1] raises IndexError when the
\* stripped line holds no tab
RECURSIVE read_lines(_, _)
read_lines(st, lines) ==
    IF lines = <<>> \/ st.status # "ok" THEN st
    ELSE LET row == split_tab(strip(Head(lines)))
         IN  IF Len(row) < 2
             THEN [st EXCEPT !.status = "raised"]
             ELSE read_lines([st EXCEPT !.out = (row[1] :> row[2]) @@ st.out],
                             Tail(lines))

\* read_inventory(fname) for an existing file that holds text t
read_inventory(t) == read_lines([status |-> "ok", out |-> <<>>], FileLines(t))

\* the well-formed inventory files: one line 'path TAB digest LF' per entry,
\* the paths in strictly ascending order
RECURSIVE EntryLines(_, _)
EntryLines(names, digs) ==
    IF names = <<>> THEN <<>>
    ELSE Head(names) \o <<"TAB">> \o Head(digs) \o <<"LF">>
             \o EntryLines(Tail(names), Tail(digs))

SortedNameLists ==
    UNION {{ns \in [1..n -> FileNames] :
               \A i \in 1..(n - 1) : StrLess(ns[i], ns[i + 1])} :
           n \in 0..MaxEntries}

InventoryFiles ==
    UNION {{EntryLines(names, digs) : digs \in [1..Len(names) -> Digests]} :
           names \in SortedNameLists}

\* a write and a read start from one dict, a read and a write from one file
InvInit ==
    /\ hin \in {[kind |-> "dict", x |-> x, f |-> <<>>] : x \in Dicts}
              \cup {[kind |-> "file", x |-> <<>>, f |-> f] : f \in InventoryFiles}
    /\ hout = [op |-> "none", text |-> <<>>, read |-> [status |-> "ok", out |-> <<>>]]
    /\ SysInit

\* write_inventory(x, fname) then read_inventory(fname)
CallWriteRead ==
    /\ hin.kind = "dict"
    /\ hout' = [op |-> "write_read", text |-> write_inventory(hin.x),
                read |-> read_inventory(write_inventory(hin.x))]
    /\ UNCHANGED <<hin, sysvars>>

\* read_inventory(fname) then write_inventory(x, fname) of what was read
CallReadWrite ==
    LET r == read_inventory(hin.f)
    IN  /\ hin.kind = "file"
        /\ hout' = [op |-> "read_write", read |-> r,
                    text |-> IF r.status = "ok" THEN write_inventory(r.out) ELSE <<>>]
        /\ UNCHANGED <<hin, sysvars>>

InvNext == CallWriteRead \/ CallReadWrite

SpecInv == InvInit /\ [][InvNext]_vars

\* ------------------------------------------- write_inventory, step by step
\* hin holds the text of .dat/local before the call and the dict to write;
\* hout holds the position of the process, the text of the file on disk,
\* the text written to the file object and not yet on disk, and the keys
\* still to write.
WriteInit ==
    /\ hin \in [old : InventoryFiles, x : Dicts]
    /\ hout = [pc |-> "start", disk |-> hin.old, buf |-> <<>>, todo |-> <<>>]
    /\ SysInit

\* f = open(fname, 'w'): the file is truncated
WriteOpen ==
    /\ hout.pc = "start"
    /\ hout' = [pc |-> "open", disk |-> <<>>, buf |-> <<>>,
                todo |-> SortedNames(DOMAIN hin.x)]
    /\ UNCHANGED <<hin, sysvars>>

\* f.write(d + '\t' + x[d] + '\n'): the line goes to the file object
WriteEntry ==
    /\ hout.pc = "open" /\ hout.todo # <<>>
    /\ hout' = [hout EXCEPT
                   !.buf = @ \o write_lines(hin.x, <<Head(hout.todo)>>),
                   !.todo = Tail(@)]
    /\ UNCHANGED <<hin, sysvars>>

\* the file object hands what it holds to the file when its buffer is full
WriteFlush ==
    /\ hout.pc = "open" /\ hout.buf # <<>>
    /\ hout' = [hout EXCEPT !.disk = @ \o hout.buf, !.buf = <<>>]
    /\ UNCHANGED <<hin, sysvars>>

\* f.close()
WriteClose ==
    /\ hout.pc = "open" /\ hout.todo = <<>>
    /\ hout' = [hout EXCEPT !.pc = "done", !.disk = @ \o hout.buf, !.buf = <<>>]
    /\ UNCHANGED <<hin, sysvars>>

\* the process is aborted: what the file object still holds reaches the file
\* (the interpreter closes it on its way out) or is lost (the process is
\* killed outright)
WriteAbort ==
    /\ hout.pc \in {"start", "open"}
    /\ \E flushed \in BOOLEAN :
          hout' = [hout EXCEPT !.pc = "aborted",
                               !.disk = IF flushed THEN @ \o hout.buf ELSE @,
                               !.buf = <<>>]
    /\ UNCHANGED <<hin, sysvars>>

WriteNext == WriteOpen \/ WriteEntry \/ WriteFlush \/ WriteClose \/ WriteAbort

SpecWrite == WriteInit /\ [][WriteNext]_vars

\* ------------------------------ the statements of one push or pull, in order
\* the statements of a non-dry dat_push that has something to transfer, with
\* a plausible slip: .dat/local is written before the sync call
push_steps_local_first ==
    <<"write .dat/master", "write .dat/local", "sync", "remove .dat/master",
      "write .dat/config">>

\* write_inventory(master, '.dat/master'); os.system(cmd);
\* write_inventory(local, '.dat/local'); os.remove('.dat/master');
\* write_config(config)
push_steps ==
    <<"write .dat/master", "sync", "write .dat/local", "remove .dat/master",
      "write .dat/config">>

\* os.system(cmd); write_inventory(local, '.dat/local')
pull_steps == <<"sync", "write .dat/local">>

\* nothing to pull: write_inventory(local, '.dat/local'); exit(...)
pull_uptodate_steps == <<"write .dat/local", "exit">>

\* a command is run on three inventories; hout holds the statements it has
\* still to run (todo) and those it has run (log)
OrderInit ==
    /\ hin \in [current : Inventories, local : Inventories, master : Inventories]
    /\ hout = [cmd |-> "none", dry |-> FALSE, todo |-> <<>>, log |-> <<>>]
    /\ SysInit

\* dat push [-d], up to the branch it takes past the resolvers
BeginPush(dry) ==
    LET push == needs_push(hin.current, hin.local)
        purg == needs_purge(hin.current, hin.local)
    IN  /\ hout.cmd = "none"
        /\ hout' = [cmd |-> "push", dry |-> dry, log |-> <<>>,
                    todo |-> IF push \cup purg = {} THEN <<"exit">>
                             ELSE IF dry THEN <<"print">>
                             ELSE push_steps]
        /\ UNCHANGED <<hin, sysvars>>

\* dat pull [-d], up to the branch it takes past the resolvers
BeginPull(dry) ==
    LET pull == needs_pull(hin.master, hin.local)
        kill == needs_kill(hin.master, hin.local)
    IN  /\ hout.cmd = "none"
        /\ hout' = [cmd |-> "pull", dry |-> dry, log |-> <<>>,
                    todo |-> IF pull \cup kill # {}
                             THEN IF dry THEN <<"print">> ELSE pull_steps
                             ELSE IF dry THEN <<"print", "exit">>
                             ELSE pull_uptodate_steps]
        /\ UNCHANGED <<hin, sysvars>>

\* the command runs its next statement
RunStatement ==
    /\ hout.cmd # "none" /\ hout.todo # <<>>
    /\ hout' = [hout EXCEPT !.log = Append(@, Head(hout.todo)), !.todo = Tail(@)]
    /\ UNCHANGED <<hin, sysvars>>

OrderNext ==
    \/ \E dry \in BOOLEAN : BeginPush(dry)
    \/ \E dry \in BOOLEAN : BeginPull(dry)
    \/ RunStatement

SpecOrder == OrderInit /\ [][OrderNext]_vars

\* ----------------------------------------------------------------- walker
\* A path is written as a sequence of pieces: the names ".dat", ".git",
\* ".DS_Store" and "a", and the separator "/".  Two names in a row are one
\* longer name: <<".git", "a">> is the file ".gita".
WalkNames == {".dat", ".git", ".DS_Store", "a"}

\* the relative paths os.walk('.') may yield, './' removed: no separator at
\* either end and no two separators in a row
WalkPaths ==
    UNION {{x \in [1..n -> WalkNames \cup {"/"}] :
               /\ x[1] # "/" /\ x[n] # "/"
               /\ \A i \in 1..(n - 1) : ~(x[i] = "/" /\ x[i + 1] = "/")} :
           n \in 1..MaxWalkLen}

\* x.startswith(name) for one of the names: no name is a prefix of another
startswith(x, name) == x[1] = name

\* the keys of take_inventory(config) in a directory that holds files
take_inventory(files) ==
    {x \in files : /\ ~startswith(x, ".dat")
                   /\ ~startswith(x, ".git")
                   /\ ~(x = <<".DS_Store">>)}

\* the walker starts from a directory with a few files
WalkInit ==
    /\ hin \in {[files |-> {f[i] : i \in 1..k}] :
                  k \in 0..MaxWalkFiles, f \in [1..MaxWalkFiles -> WalkPaths]}
    /\ hout = [op |-> "none", inv |-> {}]
    /\ SysInit

CallTakeInventory ==
    /\ hout' = [op |-> "walk", inv |-> take_inventory(hin.files)]
    /\ UNCHANGED <<hin, sysvars>>

SpecWalk == WalkInit /\ [][CallTakeInventory]_vars

Init ==
    /\ SysInit
    /\ hin = [current |-> EmptyInv, local |-> EmptyInv, master |-> EmptyInv]
    /\ hout = NoCall

\* the users edit their trees and run push and pull for real; the sync call
\* may fail
Next ==
    \/ \E q \in Peers, p \in Paths, v \in {Absent} \cup FP : Edit(q, p, v)
    \/ \E q \in Peers, net \in {"up", "drop"} : Push(q, FALSE, net)
    \/ \E q \in Peers, net \in {"up", "drop"} : Pull(q, FALSE, net)

Spec == Init /\ [][Next]_vars

\* the edits of the behaviours that add further commands to push and pull
EditCli ==
    \E q \in Peers, p \in Paths, v \in {Absent} \cup FP :
        edits < MaxCliEdits /\ Edit(q, p, v)

\* push and pull, for real and as dry runs, and status -r
NextStatus ==
    \/ EditCli
    \/ \E q \in Peers, dry \in BOOLEAN : Push(q, dry, "up")
    \/ \E q \in Peers, dry \in BOOLEAN : Pull(q, dry, "up")
    \/ \E q \in Peers : Status(q, "up")

SpecStatus == Init /\ [][NextStatus]_vars

\* push, pull and stash; one working copy holds a stash at a time
NextStash ==
    \/ EditCli
    \/ \E q \in Peers : Push(q, FALSE, "up")
    \/ \E q \in Peers : Pull(q, FALSE, "up")
    \/ \E q \in Peers :
          (\A r \in Peers \ {q} : ~stash[r].exists) /\ Stash(q, "up")

SpecStash == Init /\ [][NextStash]_vars

\* push and pull, either of which may be killed during its sync call
NextKilled ==
    \/ \E q \in Peers, p \in Paths, v \in {Absent} \cup FP :
          edits < MaxKillEdits /\ Edit(q, p, v)
    \/ \E q \in Peers : Push(q, FALSE, "up")
    \/ \E q \in Peers : Pull(q, FALSE, "up")
    \/ \E q \in Peers, files \in SUBSET Paths, withMaster \in BOOLEAN :
          PushInterrupted(q, files, withMaster)
    \/ \E q \in Peers, files \in SUBSET Paths : PullInterrupted(q, files)

SpecKilled == Init /\ [][NextKilled]_vars

\* push, pull, stash and stash pop
NextPop ==
    \/ \E q \in Peers, p \in Paths, v \in {Absent} \cup FP :
          edits < MaxPopEdits /\ Edit(q, p, v)
    \/ \E q \in Peers : Push(q, FALSE, "up")
    \/ \E q \in Peers : Pull(q, FALSE, "up")
    \/ \E q \in Peers : Stash(q, "up")
    \/ \E q \in Peers, hard \in BOOLEAN : Pop(q, hard)

SpecPop == Init /\ [][NextPop]_vars

\* verdict of a returned resolver call for a path of its candidate set
Verdict(p) ==
    IF p \in hout.conflict THEN "conflict"
    ELSE IF p \in hout.resolved THEN "resolved"
    ELSE "actionable"

\* ------------------------------------------------------------------ claims
\* C1: for every path of the push candidate set, resolve_push_conflicts in
\* hard mode gives the verdict of the push table (conflict iff m present,
\* m # c and (l absent or m # l); resolved iff m present, m = c and (l absent
\* or m # l); actionable otherwise) and the table's post-state.
C1_PushTable ==
    (hout.op = "push" /\ hout.hard) =>
        /\ hout.conflict \cap hout.resolved = {}
        /\ hout.conflict \cup hout.resolved \subseteq hout.cand
        /\ \A p \in hout.cand :
            LET c == hin.current[p]
                l == hin.local[p]
                m == hin.master[p]
                want == IF m # Absent /\ m # c /\ (l = Absent \/ m # l) THEN "conflict"
                        ELSE IF m # Absent /\ m = c /\ (l = Absent \/ m # l) THEN "resolved"
                        ELSE "actionable"
            IN  /\ Verdict(p) = want
                /\ want = "actionable" => hout.local[p] = c /\ hout.master[p] = c
                /\ want = "resolved" => hout.local[p] = c /\ hout.master[p] = m
                /\ want = "conflict" => hout.local[p] = l /\ hout.master[p] = m

\* C1 witness: a hard call of the push resolver found a conflict with l, m and
\* c all present and all different, next to a path that is no conflict
C1_Witness ==
    /\ hout.op = "push" /\ hout.hard
    /\ \E p \in hout.conflict :
          /\ hin.local[p] # Absent
          /\ hin.master[p] # hin.local[p]
          /\ hin.master[p] # hin.current[p]
    /\ \E p \in hout.cand : Verdict(p) # "conflict"

\* C2: for every path of the pull candidate set, resolve_pull_conflicts in
\* hard mode gives the verdict of the pull table (actionable iff c = l, both
\* present or both absent; resolved iff c present, c = m, c # l; conflict
\* otherwise), actionable and resolved set local[p] = m, conflict leaves
\* local[p], and master is never changed.
C2_PullTable ==
    (hout.op = "pull" /\ hout.hard) =>
        /\ hout.conflict \cap hout.resolved = {}
        /\ hout.conflict \cup hout.resolved \subseteq hout.cand
        /\ hout.master = hin.master
        /\ \A p \in hout.cand :
            LET c == hin.current[p]
                l == hin.local[p]
                m == hin.master[p]
                want == IF (l # Absent /\ c = l) \/ (l = Absent /\ c = Absent)
                        THEN "actionable"
                        ELSE IF c # Absent /\ c = m /\ (l = Absent \/ c # l)
                        THEN "resolved"
                        ELSE "conflict"
                isConflict == \/ c # Absent /\ c # m /\ (l = Absent \/ c # l)
                              \/ l # Absent /\ c = Absent
            IN  /\ Verdict(p) = want
                /\ (want = "conflict") = isConflict
                /\ want \in {"actionable", "resolved"} => hout.local[p] = m
                /\ want = "conflict" => hout.local[p] = l

\* C2 witness: a hard call of the pull resolver met the "deleted locally,
\* changed remotely" conflict and an actionable path in the same call
C2_Witness ==
    /\ hout.op = "pull" /\ hout.hard
    /\ \E p \in hout.conflict : hin.local[p] # Absent /\ hin.current[p] = Absent
    /\ \E p \in hout.cand : Verdict(p) = "actionable" /\ hout.local[p] # hin.local[p]

\* C3: for every path of the purge candidate set (l present, c absent),
\* resolve_purge_conflicts in hard mode gives actionable when m = l (p deleted
\* from local and master), conflict when m is present and m # l (nothing
\* changes), resolved when m is absent (p deleted from local only).
C3_PurgeTable ==
    (hout.op = "purge" /\ hout.hard) =>
        \A p \in hout.cand :
            LET l == hin.local[p]
                m == hin.master[p]
            IN  /\ l # Absent /\ hin.current[p] = Absent
                /\ m = l =>
                     /\ Verdict(p) = "actionable"
                     /\ hout.local[p] = Absent /\ hout.master[p] = Absent
                /\ (m # Absent /\ m # l) =>
                     /\ Verdict(p) = "conflict"
                     /\ hout.local[p] = l /\ hout.master[p] = m
                /\ m = Absent =>
                     /\ Verdict(p) = "resolved"
                     /\ hout.local[p] = Absent /\ hout.master[p] = Absent

\* C3 witness: a hard call of the purge resolver found a purge conflict
\* (remote changed since the snapshot) next to an actionable purge
C3_Witness ==
    /\ hout.op = "purge" /\ hout.hard
    /\ hout.conflict # {}
    /\ \E p \in hout.cand : Verdict(p) = "actionable" /\ hin.master[p] # Absent

\* C4: for every path of the kill candidate set (l present, m absent),
\* resolve_kill_conflicts in hard mode gives actionable when c = l (p deleted
\* from local), conflict when c is present and c # l (local unchanged),
\* resolved when c is absent (p deleted from local).
C4_KillTable ==
    (hout.op = "kill" /\ hout.hard) =>
        \A p \in hout.cand :
            LET c == hin.current[p]
                l == hin.local[p]
            IN  /\ l # Absent /\ hin.master[p] = Absent
                /\ c = l =>
                     Verdict(p) = "actionable" /\ hout.local[p] = Absent
                /\ (c # Absent /\ c # l) =>
                     Verdict(p) = "conflict" /\ hout.local[p] = l
                /\ c = Absent =>
                     Verdict(p) = "resolved" /\ hout.local[p] = Absent

\* C4 witness: a hard call of the kill resolver found a kill conflict (file
\* modified locally, deleted remotely) next to an actionable kill
C4_Witness ==
    /\ hout.op = "kill" /\ hout.hard
    /\ hout.conflict # {}
    /\ \E p \in hout.cand : Verdict(p) = "actionable"

\* C5: needs_push, needs_purge, needs_pull and needs_kill return exactly the
\* sets of the classifier's definition, and with local empty push is
\* keys(current).
C5_CandidateSets ==
    hout.op = "needs" =>
        LET c == hin.current
            l == hin.local
            m == hin.master
        IN  /\ hout.push = {p \in Paths : c[p] # Absent /\ (l[p] = Absent \/ c[p] # l[p])}
            /\ hout.purge = {p \in Paths : l[p] # Absent /\ c[p] = Absent}
            /\ hout.pull = {p \in Paths : m[p] # Absent /\ (l[p] = Absent \/ m[p] # l[p])}
            /\ hout.kill = {p \in Paths : l[p] # Absent /\ m[p] = Absent}
            /\ l = EmptyInv => hout.push = Keys(c)

\* C5 witness: the classifier ran on a non-empty snapshot and put a new file
\* and nothing else into push, with the other three sets non-empty as well
C5_Witness ==
    /\ hout.op = "needs"
    /\ hin.local # EmptyInv
    /\ \E p \in hout.push : hin.local[p] = Absent
    /\ hout.purge # {} /\ hout.kill # {} /\ hout.pull # {}

\* C6: push and purge are disjoint and pull and kill are disjoint (push may
\* overlap pull and kill: the witness).
C6_Partition ==
    hout.op = "needs" =>
        /\ hout.push \cap hout.purge = {}
        /\ hout.pull \cap hout.kill = {}

\* C6 witness: push overlaps pull on one path and kill on another
C6_Witness ==
    /\ hout.op = "needs"
    /\ hout.push \cap hout.pull # {}
    /\ hout.push \cap hout.kill # {}

\* ------------------------------------------------ claims on push and pull
\* the command recorded in last ran to its end and its sync call succeeded
Synced == last.cmd \in {"push", "pull"} /\ last.out = "synced" /\ last.net = "up"

\* both sides changed path p of peer q away from the snapshot, differently
Diverged(q, p) ==
    /\ tree[q][p] # localf[q][p]
    /\ remote.master[p] # localf[q][p]
    /\ tree[q][p] # remote.master[p]

C8_Convergence ==
    (/\ last.cmd = "pull" /\ ~last.dry /\ last.net = "up"
     /\ last.out \in {"synced", "uptodate"}
     /\ last.after = "peer push") =>
        \A q \in Peers :
            /\ localf[q] = remote.master
            /\ tree[q] = remote.master

\* C9 as stated: the second of two pushes with no edit in between finds push
\* and purge empty, exits 'Everything up-to-date' without fetching master and
\* does not modify .dat/local.
C9_SecondPushUpToDate ==
    (last.cmd = "push" /\ last.after \in {"own push", "own push with conflicts"}) =>
        /\ last.out = "uptodate"
        /\ ~last.changedLocal

\* C9 amended: the second of two pushes with no edit in between leaves the
\* content of .dat/local unchanged; when the first reported no conflict it
\* finds push and purge empty and exits 'Everything up-to-date' without
\* fetching master; when the first reported conflicts it fetches master again
\* and every path of its push and purge sets is a conflict again.
C9_SecondPushIdle ==
    /\ (last.cmd = "push" /\ last.after = "own push") =>
          /\ last.out = "uptodate" /\ last.cand = {}
          /\ ~last.changedLocal
    /\ (last.cmd = "push" /\ last.after = "own push with conflicts") =>
          /\ last.out = "synced"
          /\ last.cand # {} /\ last.conflict = last.cand
          /\ ~last.changedLocal

\* C9 witness: a second push right after a push that reported conflicts
C9_Witness ==
    /\ last.cmd = "push" /\ last.after = "own push with conflicts"
    /\ last.out = "synced" /\ last.net = "up"

\* C10: a failed sync call is fatal for the command and leaves .dat/local with
\* the content it had before the command.
C10_FailedSyncKeepsLocal ==
    (last.cmd \in {"push", "pull"} /\ last.net = "drop") =>
        /\ last.out = "fatal"
        /\ ~last.changedLocal

\* ------------------------------------------------- claims on symmetry
\* C15: for the same three fingerprints of a path, when the push resolver of
\* peer A classifies the path as conflict, the path is a pull candidate of
\* peer B, for whom current and master are exchanged, and B's pull resolver
\* classifies it as conflict too.
C15_ConflictSymmetry ==
    hout.op = "mirrored" =>
        \A p \in hout.conflict :
            p \in hout.mirrorCand /\ p \in hout.mirrorConflict

\* C15 witness: A's push resolver found a conflict on a path both sides
\* changed, and a second candidate that is no conflict
C15_Witness ==
    /\ hout.op = "mirrored"
    /\ \E p \in hout.conflict :
          hin.local[p] # Absent /\ hin.master[p] # hin.local[p]
    /\ hout.cand \ hout.conflict # {}

\* ------------------------------------ claims on what a sync call transfers
\* the paths of the finished command's candidate sets that are neither a
\* conflict nor resolved
Actionable == (last.cand \ last.conflict) \ last.resolved

\* C16: when a push or pull has conflicting and non-conflicting paths, the
\* include list of its sync call names exactly the actionable paths, and once
\* the call has run every actionable path is transferred (push: the remote
\* object is the working-tree file; pull: the working-tree file is the remote
\* object) and its local entry is the master entry.
C16_ActionablePathsTransferred ==
    (Synced /\ last.conflict # {} /\ Actionable # {}) =>
        /\ last.include = Actionable
        /\ \A p \in Actionable :
              /\ remote.obj[p] = tree[last.peer][p]
              /\ localf[last.peer][p] = remote.master[p]

\* C17: a push or pull whose sync call is issued leaves every path it
\* classifies as conflict untouched: a pull changes neither the working-tree
\* file nor the .dat/local entry, a push changes neither the remote object,
\* the master entry nor the .dat/local entry.
C17_ConflictPathsUntouched ==
    [][(last'.cmd \in {"push", "pull"} /\ last'.out = "synced") =>
          \A p \in last'.conflict :
              /\ localf'[last'.peer][p] = localf[last'.peer][p]
              /\ last'.cmd = "pull" => tree'[last'.peer][p] = tree[last'.peer][p]
              /\ last'.cmd = "push" =>
                    /\ remote'.obj[p] = remote.obj[p]
                    /\ remote'.master[p] = remote.master[p]]_vars

\* C18: the push of a freshly initialised repository (pushed false, .dat/local
\* empty, nothing in the store) whose sync call succeeds creates the bucket,
\* uploads every file of current and the master object, and ends with
\* local = current = master and pushed true.
C18_FirstPush ==
    [][(/\ last'.cmd = "push" /\ last'.out = "synced" /\ last'.net = "up"
        /\ ~pushed[last'.peer] /\ localf[last'.peer] = EmptyInv
        /\ ~remote.bucket /\ ~remote.hasMaster /\ remote.obj = EmptyInv) =>
          /\ remote'.bucket /\ remote'.hasMaster
          /\ \A p \in Keys(tree[last'.peer]) : remote'.obj[p] = tree[last'.peer][p]
          /\ localf'[last'.peer] = tree'[last'.peer]
          /\ remote'.master = tree'[last'.peer]
          /\ pushed'[last'.peer]]_vars

\* ------------------------------------------ claims on status and dry runs
\* C12: from every state, status -r leaves the content of .dat/local and the
\* remote master as they were.
C12_StatusKeepsLocalAndMaster ==
    [][last'.cmd = "status" =>
          /\ localf' = localf
          /\ remote'.hasMaster = remote.hasMaster
          /\ remote'.master = remote.master]_vars

\* C13: push -d changes nothing: .dat/local, .dat/config, the working tree,
\* the remote objects, the remote master and the existence of the bucket are
\* as before, from every state including a never-pushed repository.
C13_DryPushChangesNothing ==
    [][(last'.cmd = "push" /\ last'.dry) =>
          /\ localf' = localf
          /\ pushed' = pushed
          /\ tree' = tree
          /\ remote' = remote]_vars

\* C14: of two runs of status -r by the same peer with nothing in between,
\* the second ends as the first did and prints the same paths under each
\* heading.
C14_StatusReportRepeats ==
    [][(/\ last.cmd = "status"
        /\ last'.cmd = "status" /\ last'.peer = last.peer) =>
          /\ last'.out = last.out
          /\ last'.report = last.report]_vars

\* C14 witness: a second status -r in a row that reports a conflict and a
\* path under another heading
C14_Witness ==
    /\ last.cmd = "status" /\ last.after = "own status"
    /\ last.report.conflicts # {}
    /\ last.report.modifiedRemotely \cup last.report.modifiedLocally
           \cup last.report.deletedRemotely \cup last.report.deletedLocally # {}

C20_StashThenPull ==
    [][/\ (/\ last'.cmd = "stash"
            /\ ~stash[last'.peer].exists
            /\ PullConflicts(last'.peer) # {}) =>
              /\ last'.out = "stashed"
              /\ \A p \in PullConflicts(last'.peer) :
                    /\ stash'[last'.peer].files[Basename(p)] = tree[last'.peer][p]
                    /\ tree'[last'.peer][p] = Absent
                    /\ localf'[last'.peer][p] = Absent
       /\ (/\ last.cmd = "stash" /\ last.out = "stashed" /\ last.affected # {}
            /\ last'.cmd = "pull" /\ last'.peer = last.peer) =>
              /\ last'.out \in {"synced", "uptodate"}
              /\ last'.conflict = {}]_vars

\* ------------------------------------------- claims on killed commands
\* C11: when a push or pull was killed during its sync call, before .dat/local
\* was rewritten, and the same peer runs the same command again with nothing
\* in between, the second run classifies none of the paths of the killed
\* transfer as conflict and ends with local, current and master agreeing on
\* each of them.
C11_RerunReconciles ==
    (last.after \in {"interrupted push", "interrupted pull"} /\ last.net = "up") =>
        /\ last.affected \cap last.conflict = {}
        /\ \A p \in last.affected :
              /\ localf[last.peer][p] = tree[last.peer][p]
              /\ localf[last.peer][p] = remote.master[p]

\* C28: called with hard=False, each of the four resolvers returns with the
\* local and master dicts it was given unchanged, whatever the verdicts are
C28_DryResolversDoNotMutate ==
    (hout.op \in {"push", "purge", "pull", "kill"} /\ ~hout.hard) =>
        /\ hout.local = hin.local
        /\ hout.master = hin.master

\* C23: in the report of status -r every path of kill_conflict & push is
\* listed under "deleted remotely but modified locally" and is not in the
\* generic conflict list; every other conflict path (pull, push, purge or
\* kill conflict) is in the generic conflict list
C23_KillConflictsListedApart ==
    hout.op = "report" =>
        LET apart == hout.killConflict \cap hout.push
        IN  /\ hout.report.deletedRemotelyModifiedLocally = apart
            /\ hout.report.conflicts \cap apart = {}
            /\ ((hout.conflict \cup hout.killConflict) \ apart)
                   \subseteq hout.report.conflicts

C23_Witness ==
    /\ hout.op = "report"
    /\ hout.killConflict \cap hout.push # {}
    /\ hout.report.conflicts # {}

\* the working tree of peer q once every file of its stash is back at the
\* path it was moved from
Restored(q) ==
    [p \in Paths |->
        IF \E b \in BaseNames : stash[q].files[b] # Absent /\ stash[q].origin[b] = p
        THEN stash[q].files[Basename(p)]
        ELSE tree[q][p]]

\* C21: stash pop without --hard refuses exactly when some stashed file would
\* overwrite an existing file at its original path, and otherwise moves
\* every entry back and removes the stash; with --hard it restores every
\* entry, overwriting existing files
C21_PopRefusesOnlyOverwrites ==
    [][(last'.cmd \in {"pop", "pop --hard"} /\ stash[last'.peer].exists) =>
          LET q == last'.peer
              over == \E b \in BaseNames :
                          /\ stash[q].files[b] # Absent
                          /\ tree[q][stash[q].origin[b]] # Absent
              restored == tree'[q] = Restored(q) /\ ~stash'[q].exists
          IN  IF last'.cmd = "pop"
              THEN /\ (last'.out = "refused") <=> over
                   /\ ~over => restored
              ELSE restored]_vars

\* C22: stash followed at once by stash pop --hard puts every stashed file
\* back at its original path, subdirectories included, and removes the stash
C22_StashThenPopHard ==
    [][(/\ last.cmd = "stash" /\ last.out = "stashed"
        /\ last'.cmd = "pop --hard" /\ last'.peer = last.peer) =>
          /\ tree'[last.peer] = Restored(last.peer)
          /\ ~stash'[last.peer].exists]_vars

\* the command ended on a fatal error: get_master gave up or raised, the
\* command refused to go on, or the sync call of the transport failed
FatalError ==
    \/ last.out \in {"fatal", "refused"}
    \/ last.out = "synced" /\ last.net = "drop"

\* C24: a command that ends without a fatal error exits with code 0, also
\* when it ends with 'Everything up-to-date' or only reports conflicts, and
\* every fatal error exits with a code other than 0
C24_ExitCodes ==
    (last.cmd # "none" /\ last.out # "interrupted") =>
        (last.code # 0 <=> FatalError)

\* C25: writing what was read from a well-formed, sorted inventory file
\* reproduces the file, and reading what was written for an inventory gives
\* the inventory back
C25_InventoryRoundTrip ==
    /\ hout.op = "read_write" =>
          hout.read.status = "ok" /\ hout.text = hin.f
    /\ hout.op = "write_read" =>
          hout.read.status = "ok" /\ hout.read.out = hin.x

\* the first component of a path: what stands before its first separator
FirstComponent(x) ==
    LET seps == {i \in 1..Len(x) : x[i] = "/"} \cup {Len(x) + 1}
    IN  SubSeq(x, 1, (CHOOSE e \in seps : \A o \in seps : e <= o) - 1)

\* C26: the walker leaves out exactly the paths whose first component is
\* .dat or .git and the entry .DS_Store: none of them is in the inventory
\* and every other file of the working tree is
C26_WalkerExclusion ==
    hout.op = "walk" =>
        hout.inv = {x \in hin.files :
                       /\ FirstComponent(x) \notin {<<".dat">>, <<".git">>}
                       /\ x # <<".DS_Store">>}

\* C27: when the process is aborted during a rewrite of .dat/local, the file
\* holds the complete content from before the write or the complete new
\* content, never an empty or partly written file
C27_AtomicRewrite ==
    hout.pc = "aborted" =>
        hout.disk \in {hin.old, write_inventory(hin.x)}

\* statement a has been run, and statement b had been run before it
RanAfter(a, b) ==
    \A i \in 1..Len(hout.log) :
        hout.log[i] = a => \E j \in 1..(i - 1) : hout.log[j] = b

\* the command issues a sync call at some point of its run
IssuesSync == \E i \in 1..Len(hout.log \o hout.todo) : (hout.log \o hout.todo)[i] = "sync"

\* C29: a non-dry push uploads, then rewrites .dat/local, then deletes the
\* transient .dat/master; a non-dry pull downloads, then rewrites
\* .dat/local; .dat/local is never rewritten before the sync call that the
\* command issues
C29_OrderOfWrites ==
    (hout.cmd \in {"push", "pull"} /\ ~hout.dry) =>
        /\ IssuesSync => RanAfter("write .dat/local", "sync")
        /\ RanAfter("remove .dat/master", "write .dat/local")
        /\ RanAfter("remove .dat/master", "sync")

C29_Witness ==
    /\ hout.cmd = "push" /\ ~hout.dry
    /\ \E i \in 1..Len(hout.log) : hout.log[i] = "remove .dat/master"

\* C30: only push modifies the remote store: a pull, a status -r, a stash or
\* a stash pop leaves the bucket, the remote master and every remote object
\* as they were, also in a repository never pushed whose master is missing
C30_OnlyPushWritesRemote ==
    [][last'.cmd \in {"pull", "status", "stash", "pop", "pop --hard"} =>
          remote' = remote]_vars

\* C35: on the same inventories each resolver returns the same conflict set
\* and the same resolved set with hard=False as with hard=True, also when
\* hard=True is run the way push and pull chain their two resolvers
C35_DryAndHardClassifyAlike ==
    hout.op = "modes" =>
        /\ hout.dryVerdicts = hout.hardVerdicts
        /\ hout.dryVerdicts = hout.chainVerdicts

C35_Witness ==
    /\ hout.op = "modes"
    /\ \E r \in {"push", "purge", "pull", "kill"} : hout.dryVerdicts[r].resolved # {}
    /\ \E r \in {"push", "purge", "pull", "kill"} : hout.dryVerdicts[r].conflict # {}
    /\ hout.purge # {} /\ hout.push # {}

\* C36: status -r prints 'Local is current with remote' only when no path
\* is listed under any of its six headings
C36_CurrentOnlyWhenNothingListed ==
    (last.cmd = "status" /\ last.out = "reported" /\ last.report.localIsCurrent) =>
        /\ last.report.conflicts = {}
        /\ last.report.modifiedRemotely = {}
        /\ last.report.modifiedLocally = {}
        /\ last.report.deletedRemotely = {}
        /\ last.report.deletedLocally = {}
        /\ last.report.deletedRemotelyModifiedLocally = {}

\* C32: the paths stash treats as conflicted are the pull and kill conflicts
\* that pull would report in the state the stash started from, also when
\* .dat/local is empty
C32_StashConflictsArePullConflicts ==
    (last.cmd = "stash" /\ last.out \in {"stashed", "fatal"}) =>
        last.conflict = last.affected

\* the master a command of the peer would fetch at its start: no entry at
\* all when the bucket holds no master yet
Fetched == IF remote.hasMaster THEN remote.master ELSE EmptyInv

\* C31: a push replaces or removes the master entry or the remote object of
\* a path only when the master fingerprint it fetched for that path is
\* absent or equal to the fingerprint in the pusher's .dat/local
C31_NoSilentLoss ==
    [][(last'.cmd = "push" /\ last'.out = "synced") =>
          \A p \in Paths :
              (remote'.master[p] # Fetched[p] \/ remote'.obj[p] # remote.obj[p]) =>
                  (Fetched[p] = Absent \/ Fetched[p] = localf[last'.peer][p])]_vars

\* C33: a push leaves every remote object outside its actionable set as it
\* was, and a pull leaves every working-tree file outside its actionable
\* set as it was
C33_SyncFrame ==
    [][/\ (last'.cmd = "push" /\ last'.out = "synced") =>
             \A p \in Paths \ Actionable' : remote'.obj[p] = remote.obj[p]
       /\ (last'.cmd = "pull" /\ last'.out = "synced") =>
             \A p \in Paths \ Actionable' :
                 tree'[last'.peer][p] = tree[last'.peer][p]]_vars

\* the remote master describes the remote files: the same paths, each with
\* the fingerprint of its object
MasterAccurate == \A p \in Paths : remote.master[p] = remote.obj[p]

\* C34: a successful push of a bucket whose master describes its files
\* leaves a bucket whose master describes its files
C34_MasterStaysAccurate ==
    [][(/\ last'.cmd = "push" /\ last'.out = "synced" /\ last'.net = "up"
        /\ MasterAccurate) => MasterAccurate']_vars

====
